---- MODULE Spec2Model ----
(***************************************************************************)
(* WriteBatch (db/write_batch.cc): the batch buffer rep_, its header       *)
(* accessors, the record encoder (Put/Delete), the validating decoder      *)
(* (Iterate), the memtable inserter (InsertInto) and the merge utility     *)
(* (Append).                                                               *)
(*                                                                         *)
(* A byte is a number in 0..255 and a buffer or slice is a sequence of     *)
(* bytes.  The int that Count returns is held as a number in               *)
(* -2^31 .. 2^31-1; a SequenceNumber (uint64) is held as four 16-bit limbs,*)
(* least significant first, so that no value leaves TLC's integers.*)
(***************************************************************************)
EXTENDS Integers, Sequences, FiniteSets, TLC

\* ------------------------------------------------------------------ bounds
\* Most Put/Delete calls made on one batch between two Clear/SetContents.
MaxCalls == 2
\* Most Put, Delete, SetCount and Append calls on one batch between two
\* Clear/SetContents, when every operation is in play.
MaxOps == 2
\* Most Put/Delete calls on the batch that InsertInto replays.
MaxBatch == 3
\* Most bytes after the header in raw (arbitrary) contents for SetContents.
MaxRaw == 3

\* --------------------------------------------------------------- constants
kHeader == 12

\* db/dbformat.h (ValueType); the tag bytes of the four record kinds.
kTypeDeletion == 0
kTypeValue == 1
kTypeValueWriteTime == 2
kTypeValueExplicitExpiry == 3

INT_MAX == 2147483646 + 1
INT_MIN == (-2147483647) - 1

\* The decoders below hold a decoded varint exactly when it is below 2^31 and
\* as VarintHuge otherwise: every buffer is shorter than that, so a length
\* that large fails the size test of GetLengthPrefixedSlice either way.
VarintHuge == INT_MAX

Drop(s, n) == SubSeq(s, n + 1, Len(s))

Take(s, n) == SubSeq(s, 1, n)

RECURSIVE Pow2(_)
Pow2(n) == IF n = 0 THEN 1 ELSE 2 * Pow2(n - 1)

\* ------------------------------------------------------- util/coding.{h,cc}
\* EncodeFixed32(buf, value): four bytes, least significant first.  The int
\* argument is converted to uint32 (a negative n stands for n + 2^32).
EncodeFixed32(n) ==
  LET m == IF n >= 0 THEN n ELSE (n + 2147483647) + 1
      top == IF n >= 0 THEN m \div 16777216 ELSE (m \div 16777216) + 128
  IN  << m % 256, (m \div 256) % 256, (m \div 65536) % 256, top >>

\* DecodeFixed32(ptr) converted to the int that Count returns.
DecodeFixed32(p) ==
  p[1] + 256 * p[2] + 65536 * p[3]
    + 16777216 * (IF p[4] >= 128 THEN p[4] - 256 ELSE p[4])

\* EncodeFixed64(buf, value): eight bytes, least significant first.
EncodeFixed64(v) ==
  [i \in 1..8 |-> IF i % 2 = 1 THEN v[(i + 1) \div 2] % 256
                               ELSE v[i \div 2] \div 256]

\* DecodeFixed64(ptr).
DecodeFixed64(p) == [i \in 1..4 |-> p[2 * i - 1] + 256 * p[2 * i]]

\* PutVarint32 / PutVarint64: seven bits per byte, least significant group
\* first, the top bit set on every byte but the last.
RECURSIVE EncodeVarint(_)
EncodeVarint(v) ==
  IF v < 128 THEN << v >>
  ELSE << (v % 128) + 128 >> \o EncodeVarint(v \div 128)

PutVarint32(dst, v) == dst \o EncodeVarint(v)

PutVarint64(dst, v) == dst \o EncodeVarint(v)

\* PutLengthPrefixedSlice(dst, value): varint32 length, then the bytes.
PutLengthPrefixedSlice(dst, value) == PutVarint32(dst, Len(value)) \o value

\* result |= part << shift, in an unsigned integer of `width` bits.
VarintOr(result, part, shift, width) ==
  LET kept == IF shift + 7 > width THEN part % Pow2(width - shift) ELSE part
  IN  IF kept = 0 THEN result
      ELSE IF result = VarintHuge \/ shift > 28 \/ (shift = 28 /\ kept >= 8)
           THEN VarintHuge
      ELSE result + kept * Pow2(shift)

\* The loop of GetVarint32PtrFallback / GetVarint64Ptr: at most maxShift/7 + 1
\* bytes, each inside the input; fails when the input ends first.
RECURSIVE GetVarintLoop(_, _, _, _, _)
GetVarintLoop(input, shift, result, maxShift, width) ==
  IF shift > maxShift \/ input = << >>
  THEN [ok |-> FALSE, value |-> 0, rest |-> input]
  ELSE LET byte == Head(input)
       IN  IF byte >= 128
           THEN GetVarintLoop(Tail(input), shift + 7,
                              VarintOr(result, byte % 128, shift, width),
                              maxShift, width)
           ELSE [ok |-> TRUE,
                 value |-> VarintOr(result, byte, shift, width),
                 rest |-> Tail(input)]

\* GetVarint32(&input, &value): on failure the input is left as it was.
GetVarint32(input) ==
  LET r == GetVarintLoop(input, 0, 0, 28, 32)
  IN  IF r.ok THEN r ELSE [ok |-> FALSE, value |-> 0, rest |-> input]

\* GetVarint64(&input, &value).
GetVarint64(input) ==
  LET r == GetVarintLoop(input, 0, 0, 63, 64)
  IN  IF r.ok THEN r ELSE [ok |-> FALSE, value |-> 0, rest |-> input]

\* GetLengthPrefixedSlice(&input, &result).
GetLengthPrefixedSlice(input) ==
  LET l == GetVarint32(input)
  IN  IF l.ok /\ Len(l.rest) >= l.value
      THEN [ok |-> TRUE, slice |-> Take(l.rest, l.value),
            rest |-> Drop(l.rest, l.value)]
      ELSE [ok |-> FALSE, slice |-> << >>, rest |-> l.rest]

\* ------------------------------------------------------ header accessors
\* WriteBatchInternal::Count(b): the int at offset 8.
Count(rep_) == DecodeFixed32(SubSeq(rep_, 9, 12))

\* WriteBatchInternal::SetCount(b, n).
SetCount(rep_, n) == Take(rep_, 8) \o EncodeFixed32(n) \o Drop(rep_, 12)

\* WriteBatchInternal::Sequence(b): the uint64 at offset 0.
Sequence(rep_) == DecodeFixed64(Take(rep_, 8))

\* WriteBatchInternal::SetSequence(b, seq).
SetSequence(rep_, seq) == EncodeFixed64(seq) \o Drop(rep_, 8)

\* a + b leaves int: the addition is undefined behaviour.
Overflows(a, b) ==
  \/ a > 0 /\ b > 0 /\ a > INT_MAX - b
  \/ a < 0 /\ b < 0 /\ a < INT_MIN - b

\* a + b on int.  Where it overflows, this is the result of the 32-bit add
\* that a build compiles it to, one of the outcomes the actions allow.
Add32(a, b) ==
  IF a > 0 /\ b > 0 /\ a > INT_MAX - b
    THEN ((a - INT_MAX) - 1) + ((b - INT_MAX) - 1)
  ELSE IF a < 0 /\ b < 0 /\ a < INT_MIN - b
    THEN ((a + INT_MAX) + 1) + ((b + INT_MAX) + 1)
  ELSE a + b

\* sequence_++ on a uint64 held as four 16-bit limbs: wraps at 2^64.
RECURSIVE U64Inc(_)
U64Inc(v) ==
  IF v = << >> THEN << >>
  ELSE IF Head(v) = 65535 THEN << 0 >> \o U64Inc(Tail(v))
  ELSE << Head(v) + 1 >> \o Tail(v)

\* The uint64 with value n, for n < 2^31.
U64(n) == << n % 65536, n \div 65536, 0, 0 >>

\* ------------------------------------------------------------- WriteBatch
\* Clear with line 43 lost: rep_.clear() and no resize.
ClearRepNoResize == << >>

\* rep_.clear(); rep_.resize(kHeader): twelve zero bytes.
ClearRep == << 0, 0, 0, 0, 0, 0, 0, 0, 0, 0, 0, 0 >>

\* A call the decoder makes on its handler.
HandlerPut(key, value, type, expiry) ==
  [op |-> "Put", key |-> key, value |-> value, type |-> type,
   expiry |-> expiry]

HandlerDelete(key) ==
  [op |-> "Delete", key |-> key, value |-> << >>, type |-> kTypeDeletion,
   expiry |-> 0]

\* The Status values Iterate returns.
OK == "OK"
TooSmall == "malformed WriteBatch (too small)"
BadPut == "bad WriteBatch Put"
BadDelete == "bad WriteBatch Delete"
BadExpiry == "bad WriteBatch Expiry"
UnknownTag == "unknown WriteBatch tag"
WrongCount == "WriteBatch has wrong count"

\* An atomic Iterate: a corruption takes back the handler calls made before
\* it.
IterateReturnAtomic(status, found, calls, ends) ==
  [status |-> status, found |-> found,
   calls |-> IF status = "OK" THEN calls ELSE << >>,
   ends |-> IF status = "OK" THEN ends ELSE << >>,
   mem |-> << >>]

\* What Iterate leaves behind when it returns: the status, the handler
\* calls made so far (in order), the value of `found`, and for each call the
\* offset in rep_ at which its record ends; `mem` is for the Add calls of
\* InsertInto's handler.
IterateReturn(status, found, calls, ends) ==
  [status |-> status, found |-> found, calls |-> calls, ends |-> ends,
   mem |-> << >>]

\* The decode loop of Iterate (lines 56-94), entered with the header removed.
\* `found` is the value on entry to the pass; the pass increments it first.
RECURSIVE IterateLoop(_, _, _, _, _)
IterateLoop(rep_, input, found, calls, ends) ==
  IF input = << >>
  THEN IterateReturn(IF found # Count(rep_) THEN WrongCount ELSE OK,
                     found, calls, ends)
  ELSE
    LET tag == Head(input)
        in1 == Tail(input)
        Next1(rest, call) ==
          IterateLoop(rep_, rest, found + 1, Append(calls, call),
                      Append(ends, Len(rep_) - Len(rest)))
        Fail(status) == IterateReturn(status, found + 1, calls, ends)
    IN  CASE tag = kTypeValue ->
               LET k == GetLengthPrefixedSlice(in1)
                   v == GetLengthPrefixedSlice(k.rest)
               IN  IF k.ok /\ v.ok
                   THEN Next1(v.rest,
                              HandlerPut(k.slice, v.slice, kTypeValue, 0))
                   ELSE Fail(BadPut)
          [] tag = kTypeDeletion ->
               LET k == GetLengthPrefixedSlice(in1)
               IN  IF k.ok
                   THEN Next1(k.rest, HandlerDelete(k.slice))
                   ELSE Fail(BadDelete)
          [] tag \in {kTypeValueWriteTime, kTypeValueExplicitExpiry} ->
               LET k == GetLengthPrefixedSlice(in1)
                   e == GetVarint64(k.rest)
                   v == GetLengthPrefixedSlice(e.rest)
               IN  IF k.ok /\ e.ok /\ v.ok
                   THEN Next1(v.rest,
                              HandlerPut(k.slice, v.slice, tag, e.value))
                   ELSE Fail(BadExpiry)
          [] OTHER -> Fail(UnknownTag)

\* Iterate that gives up quietly: a record that does not decode ends the
\* loop as the end of the input does.
IterateLenient(rep_) ==
  LET it == IF Len(rep_) < kHeader
            THEN IterateReturn(TooSmall, 0, << >>, << >>)
            ELSE IterateLoop(rep_, Drop(rep_, kHeader), 0, << >>, << >>)
  IN  IF it.status \in {BadPut, BadDelete, BadExpiry}
      THEN [it EXCEPT !.status = OK]
      ELSE it

\* Iterate that hands an unknown tag to the deletion case.
IterateDefaultDelete(rep_) ==
  LET it == IF Len(rep_) < kHeader
            THEN IterateReturn(TooSmall, 0, << >>, << >>)
            ELSE IterateLoop(rep_, Drop(rep_, kHeader), 0, << >>, << >>)
  IN  IF it.status = UnknownTag
      THEN [it EXCEPT !.status = BadDelete]
      ELSE it

\* Iterate with lines 48-50 lost: a buffer without a header goes on to the
\* count check, which compares found with bytes that are not the buffer's.
IterateUnchecked(rep_) ==
  IF Len(rep_) < kHeader
  THEN IterateReturn(WrongCount, 0, << >>, << >>)
  ELSE IterateLoop(rep_, Drop(rep_, kHeader), 0, << >>, << >>)

\* Iterate with lines 90-92 lost: found is not compared with the count.
IterateCountUnchecked(rep_) ==
  LET it == IF Len(rep_) < kHeader
            THEN IterateReturn(TooSmall, 0, << >>, << >>)
            ELSE IterateLoop(rep_, Drop(rep_, kHeader), 0, << >>, << >>)
  IN  IF it.status = WrongCount THEN [it EXCEPT !.status = OK] ELSE it

\* Iterate with the input two bytes longer than rep_: the loop reads the two
\* (zero) bytes that follow the buffer.
IterateOverrun(rep_) ==
  IF Len(rep_) < kHeader
  THEN IterateReturn(TooSmall, 0, << >>, << >>)
  ELSE IterateLoop(rep_, Drop(rep_, kHeader) \o << 0, 0 >>, 0, << >>, << >>)

\* WriteBatch::Iterate(handler).
Iterate(rep_) ==
  IF Len(rep_) < kHeader
  THEN IterateReturn(TooSmall, 0, << >>, << >>)
  ELSE IterateLoop(rep_, Drop(rep_, kHeader), 0, << >>, << >>)

\* KeyMetaData(): the metadata Put uses when the caller passes none.
KeyMetaData == [null |-> TRUE, m_Type |-> kTypeValue, m_Expiry |-> 0]

\* Caller-supplied metadata.
Meta(type, expiry) == [null |-> FALSE, m_Type |-> type, m_Expiry |-> expiry]

\* Whether Put reads the clock (line 123).
ReadsClock(meta) ==
  ~meta.null /\ meta.m_Type = kTypeValueWriteTime /\ meta.m_Expiry = 0

\* Put with line 121 lost: only the explicit-expiry type gets an expiry field.
PutRepExplicitOnly(rep_, key, value, meta, now) ==
  LET local_meta == IF ~meta.null THEN meta ELSE KeyMetaData
      r3 == PutLengthPrefixedSlice(
              Append(SetCount(rep_, Add32(Count(rep_), 1)),
                     local_meta.m_Type % 256), key)
      r4 == IF local_meta.m_Type = kTypeValueExplicitExpiry
            THEN PutVarint64(r3, local_meta.m_Expiry)
            ELSE r3
  IN  PutLengthPrefixedSlice(r4, value)

\* Put with lines 123-124 lost: the expiry is written as the caller gave it.
PutRepUnresolved(rep_, key, value, meta, now) ==
  LET local_meta == IF ~meta.null THEN meta ELSE KeyMetaData
      r3 == PutLengthPrefixedSlice(
              Append(SetCount(rep_, Add32(Count(rep_), 1)),
                     local_meta.m_Type % 256), key)
      r4 == IF local_meta.m_Type = kTypeValueExplicitExpiry
               \/ local_meta.m_Type = kTypeValueWriteTime
            THEN PutVarint64(r3, local_meta.m_Expiry)
            ELSE r3
  IN  PutLengthPrefixedSlice(r4, value)

\* WriteBatch::Put(key, value, meta); `now` is what GetTimeMinutes returns.
PutRep(rep_, key, value, meta, now) ==
  LET local_meta == IF ~meta.null THEN meta ELSE KeyMetaData
      r1 == SetCount(rep_, Add32(Count(rep_), 1))
      r2 == Append(r1, local_meta.m_Type % 256)
      r3 == PutLengthPrefixedSlice(r2, key)
      r4 == IF local_meta.m_Type = kTypeValueExplicitExpiry
               \/ local_meta.m_Type = kTypeValueWriteTime
            THEN PutVarint64(r3,
                   IF local_meta.m_Type = kTypeValueWriteTime
                        /\ local_meta.m_Expiry = 0
                   THEN now ELSE local_meta.m_Expiry)
            ELSE r3
  IN  PutLengthPrefixedSlice(r4, value)

\* Delete with line 131 lost: the record is added, the count is not.
DeleteRepKeepsCount(rep_, key) ==
  PutLengthPrefixedSlice(Append(rep_, kTypeDeletion), key)

\* WriteBatch::Delete(key).
DeleteRep(rep_, key) ==
  PutLengthPrefixedSlice(
    Append(SetCount(rep_, Add32(Count(rep_), 1)), kTypeDeletion), key)

\* Append with line 177 lost: the records are spliced, the count is not summed.
AppendRepKeepsCount(dst, src) == dst \o Drop(src, kHeader)

\* Append that re-sequences: the receiver takes the source's sequence number.
AppendRepResequenced(dst, src) ==
  SetSequence(SetCount(dst, Add32(Count(dst), Count(src))), Sequence(src))
    \o Drop(src, kHeader)

\* WriteBatchInternal::Append(dst, src), both buffers holding a header.
AppendRep(dst, src) ==
  SetCount(dst, Add32(Count(dst), Count(src))) \o Drop(src, kHeader)

\* ------------------------------------------------- MemTableInserter (137-158)
\* The expiry module's MemTableInserterCallback(key, value, type, expiry): it
\* may rewrite the type and the expiry.  "NULL" is no options or no module,
\* "keep" a module that leaves both alone, "stamp" a module that turns a plain
\* value into a write-time value with the module's time.
PolicyTime == 9

ExpiryCallback(policy, key, value, type, expiry) ==
  IF policy = "stamp" /\ type = kTypeValue
  THEN [type |-> kTypeValueWriteTime, expiry |-> PolicyTime]
  ELSE [type |-> type, expiry |-> expiry]

\* An entry handed to MemTable::Add.
MemEntry(seq, type, key, value, expiry) ==
  [seq |-> seq, type |-> type, key |-> key, value |-> value,
   expiry |-> expiry]

\* Put with lines 149-150 lost: the expiry module is never asked.
InserterPutNoCallback(ins, policy, key, value, type, expiry) ==
  [sequence_ |-> U64Inc(ins.sequence_),
   mem |-> Append(ins.mem,
             MemEntry(ins.sequence_, type, key, value, expiry))]

\* MemTableInserter::Put on the inserter `ins` (sequence_ and the Add calls
\* made so far on mem_).
InserterPut(ins, policy, key, value, type, expiry) ==
  LET use == IF policy # "NULL"
             THEN ExpiryCallback(policy, key, value, type, expiry)
             ELSE [type |-> type, expiry |-> expiry]
  IN  [sequence_ |-> U64Inc(ins.sequence_),
       mem |-> Append(ins.mem,
                 MemEntry(ins.sequence_, use.type, key, value, use.expiry))]

\* Delete with line 156 lost: the sequence is not advanced.
InserterDeleteSameSequence(ins, key) ==
  [sequence_ |-> ins.sequence_,
   mem |-> Append(ins.mem,
             MemEntry(ins.sequence_, kTypeDeletion, key, << >>, 0))]

\* MemTableInserter::Delete.
InserterDelete(ins, key) ==
  [sequence_ |-> U64Inc(ins.sequence_),
   mem |-> Append(ins.mem,
             MemEntry(ins.sequence_, kTypeDeletion, key, << >>, 0))]

\* The inserter after the handler calls `hc`, made in order.
RECURSIVE InserterRun(_, _, _)
InserterRun(ins, policy, hc) ==
  IF hc = << >> THEN ins
  ELSE LET c == Head(hc)
       IN  InserterRun(
             IF c.op = "Put"
             THEN InserterPut(ins, policy, c.key, c.value, c.type, c.expiry)
             ELSE InserterDelete(ins, c.key),
             policy, Tail(hc))

\* WriteBatchInternal::InsertInto(b, memtable, options): the status of
\* Iterate and the Add calls the inserter made.
InsertIntoRep(rep_, policy) ==
  LET it == Iterate(rep_)
      ins == InserterRun([sequence_ |-> Sequence(rep_), mem |-> << >>],
                         policy, it.calls)
  IN  [it EXCEPT !.mem = ins.mem]

\* ------------------------------------------------------------------ state
VARIABLES
  rep,     \* rep[b]: the buffer rep_ of batch b
  ndebug,  \* "yes" once the run has shown that the build defines NDEBUG
           \* (an assert was passed with its condition false), else "any"
  fault,   \* "none", or how the process ended: "assert", "ub"
  hist,    \* history: the Put, Delete, SetCount and Append calls on b since
           \* its last Clear or SetContents, in order
  load,    \* history: how the contents SetContents gave b were made, while
           \* b still holds them
  op,      \* history: the last operation
  res      \* what the last Iterate / InsertInto returned and handed out

vars == << rep, ndebug, fault, hist, load, op, res >>

Batches == {"b1", "b2"}

NoRes == [status |-> "-", found |-> 0, calls |-> << >>, ends |-> << >>,
          mem |-> << >>]

NoLoad == [kind |-> "none", orig |-> << >>, at |-> 0, byte |-> 0]

\* The call Put(key, value, meta) as the history keeps it; `now` is kept only
\* when the call read the clock.
ApiPut(key, value, meta, now) ==
  [op |-> "Put", key |-> key, value |-> value, null |-> meta.null,
   type |-> IF meta.null THEN KeyMetaData.m_Type ELSE meta.m_Type,
   expiry |-> IF meta.null THEN KeyMetaData.m_Expiry ELSE meta.m_Expiry,
   now |-> IF ReadsClock(meta) THEN now ELSE 0]

ApiDelete(key) ==
  [op |-> "Delete", key |-> key, value |-> << >>, null |-> TRUE,
   type |-> kTypeDeletion, expiry |-> 0, now |-> 0]

\* SetCount(b, n) and Append(b, src) in the history; Append keeps the
\* header count of src in `expiry`.
ApiOther(name, n) ==
  [op |-> name, key |-> << >>, value |-> << >>, null |-> TRUE,
   type |-> kTypeDeletion, expiry |-> n, now |-> 0]

IsCall(h) == h.op \in {"Put", "Delete"}

\* The Put/Delete calls on b since its last Clear or SetContents.
Calls(b) == SelectSeq(hist[b], IsCall)

\* b is a freshly cleared batch on which only Put and Delete were called
\* (and SetSequence, which leaves the records and the count alone).
Built(b) == load[b].kind = "none" /\ Calls(b) = hist[b]

Op(name, b, x) == [name |-> name, b |-> b, x |-> x]

\* A header access on a buffer shorter than the header reads or writes
\* outside rep_: undefined behaviour, after which nothing is known.
Undefined ==
  /\ fault' = "ub"
  /\ UNCHANGED << rep, ndebug, hist, load, op, res >>

Init ==
  /\ rep = [b \in Batches |-> ClearRep]
  /\ ndebug = "any"
  /\ fault = "none"
  /\ hist = [b \in Batches |-> << >>]
  /\ load = [b \in Batches |-> NoLoad]
  /\ op = Op("WriteBatch", "b1", "-")
  /\ res = NoRes

\* WriteBatch::Clear().
Clear(b) ==
  /\ fault = "none"
  /\ rep' = [rep EXCEPT ![b] = ClearRep]
  /\ hist' = [hist EXCEPT ![b] = << >>]
  /\ load' = [load EXCEPT ![b] = NoLoad]
  /\ op' = Op("Clear", b, "-")
  /\ res' = NoRes
  /\ UNCHANGED << ndebug, fault >>

\* WriteBatch::Put(key, value, meta).  Count(this) + 1 at the largest int is
\* undefined: the call either ends in the fault or goes on with the wrapped
\* sum.
Put(b, key, value, meta, now) ==
  /\ fault = "none"
  /\ IF Len(rep[b]) < kHeader THEN Undefined
     ELSE \/ Overflows(Count(rep[b]), 1) /\ Undefined
          \/ /\ rep' = [rep EXCEPT ![b] = PutRep(@, key, value, meta, now)]
             /\ hist' = [hist EXCEPT
                           ![b] = Append(@, ApiPut(key, value, meta, now))]
             /\ op' = Op("Put", b, "-")
             /\ res' = NoRes
             /\ UNCHANGED << ndebug, fault, load >>

\* WriteBatch::Delete(key).
Delete(b, key) ==
  /\ fault = "none"
  /\ IF Len(rep[b]) < kHeader THEN Undefined
     ELSE \/ Overflows(Count(rep[b]), 1) /\ Undefined
          \/ /\ rep' = [rep EXCEPT ![b] = DeleteRep(@, key)]
             /\ hist' = [hist EXCEPT ![b] = Append(@, ApiDelete(key))]
             /\ op' = Op("Delete", b, "-")
             /\ res' = NoRes
             /\ UNCHANGED << ndebug, fault, load >>

\* WriteBatchInternal::SetCount(b, n).
DoSetCount(b, n) ==
  /\ fault = "none"
  /\ IF Len(rep[b]) < kHeader THEN Undefined
     ELSE /\ rep' = [rep EXCEPT ![b] = SetCount(@, n)]
          /\ hist' = [hist EXCEPT ![b] = Append(@, ApiOther("SetCount", n))]
          /\ op' = Op("SetCount", b, "-")
          /\ res' = NoRes
          /\ UNCHANGED << ndebug, fault, load >>

\* WriteBatchInternal::SetSequence(b, seq).
DoSetSequence(b, seq) ==
  /\ fault = "none"
  /\ IF Len(rep[b]) < 8 THEN Undefined
     ELSE /\ rep' = [rep EXCEPT ![b] = SetSequence(@, seq)]
          /\ op' = Op("SetSequence", b, "-")
          /\ res' = NoRes
          /\ UNCHANGED << ndebug, fault, hist, load >>

\* WriteBatchInternal::SetContents(b, contents); `how` says how the caller
\* made the contents.  With contents shorter than a header the assert ends a
\* build without NDEBUG and is compiled out of a build with it.
SetContents(b, contents, how) ==
  /\ fault = "none"
  /\ \/ /\ Len(contents) < kHeader
        /\ ndebug = "any"
        /\ fault' = "assert"
        /\ UNCHANGED << rep, ndebug, hist, load, op, res >>
     \/ /\ rep' = [rep EXCEPT ![b] = contents]
        /\ ndebug' = IF Len(contents) < kHeader THEN "yes" ELSE ndebug
        /\ hist' = [hist EXCEPT ![b] = << >>]
        /\ load' = [load EXCEPT ![b] = how]
        /\ op' = Op("SetContents", b, "-")
        /\ res' = NoRes
        /\ UNCHANGED fault

\* WriteBatchInternal::Append(dst, src), dst and src two batches.  Count(src)
\* and SetCount(dst) come before the assert.
BatchAppend(dst, src) ==
  /\ fault = "none"
  /\ dst # src
  /\ IF Len(rep[dst]) < kHeader \/ Len(rep[src]) < kHeader THEN Undefined
     ELSE \/ Overflows(Count(rep[dst]), Count(rep[src])) /\ Undefined
          \/ /\ rep' = [rep EXCEPT ![dst] = AppendRep(@, rep[src])]
             /\ hist' = [hist EXCEPT
                           ![dst] = Append(@, ApiOther("Append",
                                                       Count(rep[src])))]
             /\ op' = Op("Append", dst, src)
             /\ res' = NoRes
             /\ UNCHANGED << ndebug, fault, load >>

\* An Iterate that consumes: the records it has handed out are dropped from
\* the batch.
DoIterateConsuming(b) ==
  /\ fault = "none"
  /\ res' = Iterate(rep[b])
  /\ rep' = [rep EXCEPT ![b] = IF Len(@) < kHeader THEN @ ELSE Take(@, kHeader)]
  /\ op' = Op("Iterate", b, "-")
  /\ UNCHANGED << ndebug, fault, hist, load >>

\* WriteBatch::Iterate(handler) with a handler that records its calls.
DoIterate(b) ==
  /\ fault = "none"
  /\ res' = Iterate(rep[b])
  /\ op' = Op("Iterate", b, "-")
  /\ UNCHANGED << rep, ndebug, fault, hist, load >>

\* WriteBatchInternal::InsertInto(b, memtable, options).
InsertInto(b, policy) ==
  /\ fault = "none"
  /\ IF Len(rep[b]) < 8 THEN Undefined
     ELSE /\ res' = InsertIntoRep(rep[b], policy)
          /\ op' = Op("InsertInto", b, policy)
          /\ UNCHANGED << rep, ndebug, fault, hist, load >>

\* ----------------------------------------------------------------- inputs
ValueTypes ==
  {kTypeDeletion, kTypeValue, kTypeValueWriteTime, kTypeValueExplicitExpiry}

\* What GetTimeMinutes may return.
Times == {7}

Policies == {"NULL", "keep", "stamp"}

U64Max == << 65535, 65535, 65535, 65535 >>

SeqValues == {U64(0), U64(100), U64(65535), U64Max}

RECURSIVE SeqsUpTo(_, _)
SeqsUpTo(S, n) ==
  IF n = 0 THEN {<< >>}
  ELSE LET shorter == SeqsUpTo(S, n - 1)
       IN  shorter \cup {Append(t, x) : t \in shorter, x \in S}

Raw == [kind |-> "raw", orig |-> << >>, at |-> 0, byte |-> 0]

\* Lengths below the header size, for contents that break SetContents's
\* precondition.
ShortLengths == {0, 8}

\* b has had fewer than max calls since its last Clear or SetContents.
Budget(b, max) == Len(hist[b]) < max

\* ------------------------------------------------------ the whole interface
\* Every operation, on few inputs.  b1 is the batch under study; b2 is another
\* writer's batch, filled by Put/Delete or loaded, and merged into b1.
CountValues == {2, INT_MAX}

\* Raw contents: one well-formed record (Delete of the empty key), one
\* record with an unknown tag, and fewer bytes than a header.
RawContents ==
  {SetCount(ClearRep, 1) \o << kTypeDeletion, 0 >>,
   SetCount(ClearRep, 1) \o << 4 >>}
    \cup {Take(ClearRep, n) : n \in ShortLengths}

NextClear == \E b \in Batches : Clear(b)

NextPut ==
  \/ \E now \in Times :
       /\ Budget("b1", MaxOps)
       /\ Put("b1", << 97 >>, << >>, Meta(kTypeValueWriteTime, 0), now)
  \/ Budget("b2", MaxOps) /\ Put("b2", << 98 >>, << 50 >>, KeyMetaData, 0)

NextDelete == \E b \in Batches : Budget(b, MaxOps) /\ Delete(b, << 97 >>)

NextSetCount ==
  \E n \in CountValues : Budget("b1", MaxOps) /\ DoSetCount("b1", n)

NextSetSequence == DoSetSequence("b1", U64Max)

NextSetContents ==
  \/ \E contents \in RawContents : SetContents("b1", contents, Raw)
  \/ SetContents("b2", Take(ClearRep, 8), Raw)

NextAppend == Budget("b1", MaxOps) /\ BatchAppend("b1", "b2")

NextIterate == DoIterate("b1")

NextInsertInto == InsertInto("b1", "NULL")

Next ==
  \/ NextClear
  \/ NextPut
  \/ NextDelete
  \/ NextSetCount
  \/ NextSetSequence
  \/ NextSetContents
  \/ NextAppend
  \/ NextIterate
  \/ NextInsertInto

Spec == Init /\ [][Next]_vars

\* ------------------------------------------------------- building a batch
\* One batch, filled by Put and Delete with every kind of metadata, and
\* iterated.
Keys == {<< >>, << 97 >>}

Values == {<< >>, << 49 >>}

Expiries == {0, 200}

BuildTimes == {7, 300}

BuildMetas ==
  {KeyMetaData} \cup {Meta(t, e) : t \in ValueTypes, e \in Expiries}

BuildClear == Clear("b1")

BuildPut ==
  \E key \in Keys, value \in Values, meta \in BuildMetas, now \in BuildTimes :
    Budget("b1", MaxCalls) /\ Put("b1", key, value, meta, now)

BuildDelete == \E key \in Keys : Budget("b1", MaxCalls) /\ Delete("b1", key)

BuildIterate == DoIterate("b1")

NextBuild == BuildClear \/ BuildPut \/ BuildDelete \/ BuildIterate

SpecBuild == Init /\ [][NextBuild]_vars

\* ------------------------------------------------ replaying into the index
\* One batch, filled by Put and Delete, given a base sequence and inserted
\* under each expiry policy.
InsertKeys == {<< 97 >>, << 98 >>}

InsertValues == {<< 49 >>, << 50 >>}

InsertMetas == {KeyMetaData, Meta(kTypeValueExplicitExpiry, 200)}

InsertClear == Clear("b1")

InsertPut ==
  \E key \in InsertKeys, value \in InsertValues, meta \in InsertMetas :
    Budget("b1", MaxBatch) /\ Put("b1", key, value, meta, 0)

InsertDelete ==
  \E key \in InsertKeys : Budget("b1", MaxBatch) /\ Delete("b1", key)

InsertSetSequence == \E seq \in SeqValues : DoSetSequence("b1", seq)

InsertInsertInto == \E policy \in Policies : InsertInto("b1", policy)

NextInsert ==
  \/ InsertClear
  \/ InsertPut
  \/ InsertDelete
  \/ InsertSetSequence
  \/ InsertInsertInto

SpecInsert == Init /\ [][NextInsert]_vars

\* ------------------------------------------------ loading damaged contents
\* One batch, filled by Put and Delete or loaded with raw bytes; its bytes
\* are then cut short, or one record's tag byte is overwritten, and loaded
\* back with SetContents, and the batch is iterated or inserted.
LoadMetas ==
  {KeyMetaData, Meta(kTypeValueWriteTime, 200),
   Meta(kTypeValueExplicitExpiry, 0)}

RawBytes == {0, 1, 3, 4, 128}

LoadContents ==
  {SetCount(ClearRep, n) \o d : n \in 0..2, d \in SeqsUpTo(RawBytes, MaxRaw)}

\* Bytes that are none of the four tags.
BadTags == {4, 255}

\* rep_ with nothing done to it since it was built or loaded raw.
Intact(b) == load[b].kind \in {"none", "raw"}

Cut(orig, at) == [kind |-> "cut", orig |-> orig, at |-> at, byte |-> 0]

Retag(orig, at, byte) ==
  [kind |-> "tag", orig |-> orig, at |-> at, byte |-> byte]

\* The offset of the tag byte of each record Iterate decodes from rep_.
TagOffsets(rep_) ==
  LET ends == Iterate(rep_).ends
  IN  {IF i = 1 THEN kHeader ELSE ends[i - 1] : i \in 1..Len(ends)}

LoadClear == Clear("b1")

LoadPut ==
  \E key \in Keys, meta \in LoadMetas :
    /\ Budget("b1", MaxCalls)
    /\ load["b1"].kind = "none"
    /\ Put("b1", key, << 49 >>, meta, 0)

LoadDelete ==
  \E key \in Keys :
    /\ Budget("b1", MaxCalls)
    /\ load["b1"].kind = "none"
    /\ Delete("b1", key)

LoadRaw == \E contents \in LoadContents : SetContents("b1", contents, Raw)

\* The bytes of b1 cut at offset `at` and loaded back.
LoadCut ==
  \E at \in kHeader..Len(rep["b1"]) :
    /\ Intact("b1")
    /\ SetContents("b1", Take(rep["b1"], at), Cut(rep["b1"], at))

\* The bytes of b1 with the tag byte at offset `at` overwritten and loaded
\* back.
LoadTag ==
  \E at \in TagOffsets(rep["b1"]), byte \in BadTags :
    /\ Intact("b1")
    /\ SetContents("b1", [rep["b1"] EXCEPT ![at + 1] = byte],
                   Retag(rep["b1"], at, byte))

LoadIterate == DoIterate("b1")

LoadPolicies == {"NULL", "stamp"}

LoadInsertInto == \E policy \in LoadPolicies : InsertInto("b1", policy)

NextLoad ==
  \/ LoadClear
  \/ LoadPut
  \/ LoadDelete
  \/ LoadRaw
  \/ LoadCut
  \/ LoadTag
  \/ LoadIterate
  \/ LoadInsertInto

SpecLoad == Init /\ [][NextLoad]_vars

\* ------------------------------------------------------- merging two batches
\* Two writers' batches, each filled by Put and Delete; b2 is merged into b1
\* by Append, the committing writer sets b1's sequence, and b1 is inserted.
\* b2 is left alone from the merge until b1 is cleared.
MergeValues == {<< >>, << 49 >>}

MergeMetas ==
  {KeyMetaData, Meta(kTypeDeletion, 0), Meta(kTypeValueExplicitExpiry, 200)}

MergeClear == Clear("b1") \/ (Built("b1") /\ Clear("b2"))

MergePut ==
  \E b \in Batches, value \in MergeValues, meta \in MergeMetas :
    /\ Built("b1")
    /\ Budget(b, MaxCalls)
    /\ Put(b, << 97 >>, value, meta, 0)

MergeDelete ==
  \E b \in Batches :
    Built("b1") /\ Budget(b, MaxCalls) /\ Delete(b, << 97 >>)

MergeSetSequence ==
  \/ DoSetSequence("b1", U64(100))
  \/ Built("b1") /\ DoSetSequence("b2", U64(7))

MergeAppend == Built("b1") /\ BatchAppend("b1", "b2")

MergeInsertInto == InsertInto("b1", "NULL")

NextMerge ==
  \/ MergeClear
  \/ MergePut
  \/ MergeDelete
  \/ MergeSetSequence
  \/ MergeAppend
  \/ MergeInsertInto

SpecMerge == Init /\ [][NextMerge]_vars

\* =================================================================== claims
IsPrefix(s, t) == Len(s) <= Len(t) /\ Take(t, Len(s)) = s

Last(s) == s[Len(s)]

\* The expiry that call c wrote into its record: none for a plain value (the
\* decoder hands out 0), the clock's time for a write-time value with expiry
\* 0, and the caller's expiry otherwise.
StoredExpiry(c) ==
  IF c.type = kTypeValueWriteTime /\ c.expiry = 0 THEN c.now
  ELSE IF c.type \in {kTypeValueWriteTime, kTypeValueExplicitExpiry}
       THEN c.expiry
  ELSE 0

\* The handler call that replays call c with the expiry the call stored.
Stored(c) ==
  IF c.op = "Delete" THEN HandlerDelete(c.key)
  ELSE HandlerPut(c.key, c.value, c.type, StoredExpiry(c))

\* The handler call that replays call c with the expiry the caller supplied.
Supplied(c) ==
  IF c.op = "Delete" THEN HandlerDelete(c.key)
  ELSE HandlerPut(c.key, c.value, c.type, c.expiry)

\* A Put whose metadata names the Deletion type.
DeletionPut(c) == c.op = "Put" /\ c.type = kTypeDeletion

\* The index of the first such Put among the calls cs, or Len(cs) + 1.
FirstDeletionPut(cs) ==
  LET at == {i \in 1..Len(cs) : DeletionPut(cs[i])}
  IN  IF at = {} THEN Len(cs) + 1
      ELSE CHOOSE i \in at : \A j \in at : i <= j

\* The last operation was Iterate, on a batch that only Put and Delete have
\* touched since it was cleared.
IteratedBuilt == op.name = "Iterate" /\ Built(op.b)

\* C1 as stated: Iterate on a freshly cleared batch after any Put/Delete
\* calls returns OK and calls the handler once per call, in order, with the
\* key, value, type and expiry the call supplied.
C1_RoundTripAsSupplied ==
  IteratedBuilt =>
    LET cs == Calls(op.b)
    IN  /\ res.status = OK
        /\ Len(res.calls) = Len(cs)
        /\ \A i \in 1..Len(cs) : res.calls[i] = Supplied(cs[i])

\* C1 amended: the handler gets, in call order, every call before the first
\* Put whose metadata names the Deletion type, with the key, value and type
\* supplied and the expiry the call stored; with no such Put these are all
\* the handler calls and Iterate returns OK; with one, that Put arrives as
\* handler Delete of its key and nothing is promised about what follows.
C1_RoundTripAsStored ==
  IteratedBuilt =>
    LET cs == Calls(op.b)
        n == FirstDeletionPut(cs)
    IN  /\ Len(res.calls) >= n - 1
        /\ \A i \in 1..(n - 1) : res.calls[i] = Stored(cs[i])
        /\ n > Len(cs) => res.status = OK /\ Len(res.calls) = Len(cs)
        /\ n <= Len(cs) =>
              /\ Len(res.calls) >= n
              /\ res.calls[n] = HandlerDelete(cs[n].key)

\* A replay of two calls, one a write-time Put with expiry 0 and an empty key
\* and value, the other a Delete, that returned OK.
C1_Witness ==
  /\ IteratedBuilt
  /\ res.status = OK
  /\ Len(res.calls) = 2
  /\ \E i, j \in 1..Len(Calls(op.b)) :
       /\ Calls(op.b)[i].type = kTypeValueWriteTime
       /\ Calls(op.b)[i].expiry = 0
       /\ Calls(op.b)[i].key = << >>
       /\ Calls(op.b)[i].value = << >>
       /\ Calls(op.b)[j].op = "Delete"

\* C5 as stated: after k Put/Delete calls on a freshly cleared batch the
\* header count is k, and Iterate either decodes exactly k records and
\* returns OK or reports the wrong count.
C5_CountThenAllOrWrongCount ==
  IteratedBuilt =>
    LET k == Len(Calls(op.b))
    IN  /\ Count(rep[op.b]) = k
        /\ \/ res.status = OK /\ Len(res.calls) = k
           \/ res.status = WrongCount

\* The step is a Put on batch b.
PutStep(b) == op'.name = "Put" /\ op'.b = b /\ hist'[b] # hist[b]

\* C8: the record a Put with an expiry type appends, decoded on its own,
\* hands the handler the clock's time (non-zero) when the type is write-time
\* and the expiry 0, and the caller's expiry otherwise (0 included).
C8_ExpiryResolvedAtEncode ==
  [][\A b \in Batches :
       PutStep(b) =>
         LET c == Last(hist'[b])
             record == Drop(rep'[b], Len(rep[b]))
             it == Iterate(SetCount(ClearRep, 1) \o record)
         IN  c.type \in {kTypeValueWriteTime, kTypeValueExplicitExpiry} =>
               /\ it.status = OK
               /\ Len(it.calls) = 1
               /\ it.calls[1].type = c.type
               /\ it.calls[1].expiry =
                    (IF c.type = kTypeValueWriteTime /\ c.expiry = 0
                     THEN c.now ELSE c.expiry)
               /\ c.type = kTypeValueWriteTime /\ c.expiry = 0 =>
                    it.calls[1].expiry # 0]_vars

\* Iterate handed out the clock's time for a write-time Put with expiry 0 and
\* expiry 0 for an explicit-expiry Put with expiry 0.
C8_Witness ==
  /\ IteratedBuilt
  /\ res.status = OK
  /\ Len(Calls(op.b)) = 2
  /\ Calls(op.b)[1].type = kTypeValueWriteTime
  /\ Calls(op.b)[1].expiry = 0
  /\ res.calls[1].expiry = 300
  /\ Calls(op.b)[2].type = kTypeValueExplicitExpiry
  /\ Calls(op.b)[2].expiry = 0
  /\ res.calls[2].expiry = 0

\* v + n on uint64 for n < 65536, modulo 2^64.
RECURSIVE AddCarry(_, _)
AddCarry(v, carry) ==
  IF v = << >> THEN << >>
  ELSE LET t == Head(v) + carry
       IN  << t % 65536 >> \o AddCarry(Tail(v), t \div 65536)

U64Plus(v, n) == AddCarry(v, n)

\* v < w on uint64.
U64Less(v, w) ==
  \E i \in 1..4 : v[i] < w[i] /\ \A j \in (i + 1)..4 : v[j] = w[j]

\* The calls put("a","1"), put("b","2"), delete("a").
ScenarioCalls ==
  << ApiPut(<< 97 >>, << 49 >>, KeyMetaData, 0),
     ApiPut(<< 98 >>, << 50 >>, KeyMetaData, 0),
     ApiDelete(<< 97 >>) >>

\* (100, Value, "a", "1"), (101, Value, "b", "2"), (102, Deletion, "a").
ScenarioEntries ==
  << MemEntry(U64(100), kTypeValue, << 97 >>, << 49 >>, 0),
     MemEntry(U64(101), kTypeValue, << 98 >>, << 50 >>, 0),
     MemEntry(U64(102), kTypeDeletion, << 97 >>, << >>, 0) >>

Scenario ==
  /\ op.name = "InsertInto"
  /\ Built(op.b)
  /\ Calls(op.b) = ScenarioCalls
  /\ Sequence(rep[op.b]) = U64(100)

\* C2 as stated: InsertInto on a batch with header sequence s hands the index
\* one entry per decoded record, the i-th (from 0) with sequence s+i, so the
\* sequences are strictly increasing; and put(a,1), put(b,2), delete(a) at
\* base 100 give exactly (100,Value,a,1), (101,Value,b,2), (102,Deletion,a).
C2_SequencesStrictlyIncrease ==
  /\ op.name = "InsertInto" =>
       /\ Len(res.mem) = Len(res.calls)
       /\ \A i \in 1..Len(res.mem) :
            res.mem[i].seq = U64Plus(Sequence(rep[op.b]), i - 1)
       /\ \A i \in 1..(Len(res.mem) - 1) :
            U64Less(res.mem[i].seq, res.mem[i + 1].seq)
  /\ Scenario => res.status = OK /\ res.mem = ScenarioEntries

\* C2 amended: the i-th entry carries s+i modulo 2^64, which is the entry
\* before it plus 1 unless that one was 2^64-1; and the scenario's entries
\* are those listed when no expiry module rewrites the pair.
C2_SequencesFollowBase ==
  /\ op.name = "InsertInto" =>
       /\ Len(res.mem) = Len(res.calls)
       /\ \A i \in 1..Len(res.mem) :
            /\ res.mem[i].seq = U64Plus(Sequence(rep[op.b]), i - 1)
            /\ res.mem[i].key = res.calls[i].key
       /\ \A i \in 1..(Len(res.mem) - 1) :
            res.mem[i].seq # U64Max =>
              U64Less(res.mem[i].seq, res.mem[i + 1].seq)
  /\ Scenario /\ op.x \in {"NULL", "keep"} =>
       res.status = OK /\ res.mem = ScenarioEntries

\* The scenario, inserted with no expiry module.
C2_Witness == Scenario /\ op.x = "NULL" /\ res.mem = ScenarioEntries

\* ------------------------------------------------------------------ C3, C4
\* The step is a call of Append(dst, src) that returned: dst is op'.b and
\* src is op'.x.
AppendStep == op'.name = "Append" /\ hist' # hist

\* C3: Append(dst, src) on two batches that each iterate OK gives a dst whose
\* header count is count(dst before) + count(src) and whose replay is OK and
\* yields dst's records in their order followed by src's in theirs.
C3_AppendConcatenates ==
  [][AppendStep =>
       LET dst == Iterate(rep[op'.b])
           src == Iterate(rep[op'.x])
           out == Iterate(rep'[op'.b])
       IN  dst.status = OK /\ src.status = OK =>
             /\ Count(rep'[op'.b]) = Count(rep[op'.b]) + Count(rep[op'.x])
             /\ out.status = OK
             /\ out.calls = dst.calls \o src.calls]_vars

\* An Append has just joined a source of at least one record to a receiver
\* that held at least one, and both the source and the result iterate OK.
C3_Witness ==
  /\ op.name = "Append"
  /\ Iterate(rep[op.x]).status = OK
  /\ Iterate(rep[op.b]).status = OK
  /\ Count(rep[op.x]) >= 1
  /\ Count(rep[op.b]) > Count(rep[op.x])

\* C4: Append(dst, src) leaves alone dst's header sequence number, every
\* byte of dst's record region and the whole of src; it changes only dst's
\* count field and adds bytes after dst's previous end.
C4_AppendFrame ==
  [][AppendStep =>
       LET old == rep[op'.b]
           new == rep'[op'.b]
       IN  /\ Sequence(new) = Sequence(old)
           /\ Take(new, 8) = Take(old, 8)
           /\ Len(new) >= Len(old)
           /\ Drop(Take(new, Len(old)), kHeader) = Drop(old, kHeader)
           /\ Drop(new, Len(old)) = Drop(rep[op'.x], kHeader)
           /\ rep'[op'.x] = rep[op'.x]]_vars

\* An Append has just added bytes to a receiver that held records and whose
\* sequence number differs from the source's.
C4_Witness ==
  /\ op.name = "Append"
  /\ Len(rep[op.x]) > kHeader
  /\ Len(rep[op.b]) > Len(rep[op.x])
  /\ Sequence(rep[op.b]) # Sequence(rep[op.x])

\* ------------------------------------------------------------------ C6, C7
\* b1 holds the bytes of a batch that iterated OK, cut at an offset after
\* the header and strictly inside a record, and has been iterated.
CutInsideRecord ==
  /\ op.name = "Iterate"
  /\ load[op.b].kind = "cut"
  /\ LET orig == Iterate(load[op.b].orig)
         at == load[op.b].at
     IN  /\ orig.status = OK
         /\ at > kHeader
         /\ at < Len(load[op.b].orig)
         /\ \A i \in 1..Len(orig.ends) : orig.ends[i] # at

Corruptions == {TooSmall, BadPut, BadDelete, BadExpiry, UnknownTag, WrongCount}

\* C6: the bytes of a batch that iterates OK, cut strictly inside a record
\* and loaded with SetContents, iterate to a corruption status, never OK,
\* and every record the handler gets is the one the uncut batch delivers at
\* that position.
C6_TruncationDetected ==
  CutInsideRecord =>
    /\ res.status \in Corruptions
    /\ res.status # OK
    /\ IsPrefix(res.calls, Iterate(load[op.b].orig).calls)

\* A batch of two records, cut inside its second record, has been iterated:
\* the handler got the first record before the corruption was found.
C6_Witness ==
  /\ CutInsideRecord
  /\ Len(Iterate(load[op.b].orig).calls) = 2
  /\ Len(res.calls) = 1

\* b1 holds the bytes of a batch that iterated OK with the tag byte of one of
\* its records overwritten by a byte that is no tag, and has been iterated.
TagOverwritten ==
  /\ op.name = "Iterate"
  /\ load[op.b].kind = "tag"
  /\ Iterate(load[op.b].orig).status = OK
  /\ load[op.b].byte \notin ValueTypes

\* C7: in a batch that iterates OK, overwriting the tag byte of any one
\* record with a byte that is none of the four tags makes Iterate return the
\* unknown-tag corruption, after the records that come before it.
C7_UnknownTagReported ==
  TagOverwritten =>
    /\ res.status = UnknownTag
    /\ \E i \in 1..Len(Iterate(load[op.b].orig).calls) :
         res.calls = Take(Iterate(load[op.b].orig).calls, i - 1)

\* The tag of the second record of a batch of two has been overwritten, and
\* the batch iterated.
C7_Witness ==
  /\ TagOverwritten
  /\ Len(Iterate(load[op.b].orig).calls) = 2
  /\ load[op.b].at > kHeader
  /\ Len(res.calls) = 1

\* ----------------------------------------------------------------- C9, C10
\* C9: Clear, in any reachable state of a batch, leaves the buffer as exactly
\* the 12-byte header with count 0 and no records, and Iterate on it returns
\* OK with no handler call.
C9_ClearResets ==
  op.name = "Clear" =>
    /\ Len(rep[op.b]) = kHeader
    /\ Count(rep[op.b]) = 0
    /\ Iterate(rep[op.b]) = IterateReturn(OK, 0, << >>, << >>)

\* Clear has run in a build without the assert, after contents shorter than
\* a header were loaded.
C9_Witness == op.name = "Clear" /\ op.b = "b1" /\ ndebug = "yes"

\* C10: the buffer of a WriteBatch is at least 12 bytes long in every
\* reachable state, so that no header access leaves the buffer.
C10_BufferHoldsHeader ==
  /\ \A b \in Batches : Len(rep[b]) >= kHeader
  /\ fault # "ub"

\* --------------------------------------------------------------------- C11
\* C11 as stated: in every reachable state the header count of a batch is
\* the number of Put/Delete calls made on it since its last Clear or
\* SetContents.
C11_CountIsCallCount ==
  \A b \in Batches :
    Len(rep[b]) >= kHeader => Count(rep[b]) = Len(Calls(b))

\* The count that the calls h, made in order, leave in a header that held c:
\* Put and Delete add 1, Append adds the source's count, SetCount stores its
\* argument.
RECURSIVE CountAfter(_, _)
CountAfter(c, h) ==
  IF h = << >> THEN c
  ELSE LET e == Head(h)
       IN  CountAfter(IF IsCall(e) THEN Add32(c, 1)
                      ELSE IF e.op = "SetCount" THEN e.expiry
                      ELSE Add32(c, e.expiry),
                      Tail(h))

\* A call of Put, Delete, SetCount or Append on b has returned in this step.
CallStep(b) == hist'[b] # hist[b] /\ hist'[b] # << >>

\* C11 amended: since its construction or last Clear the count of a batch
\* is 0 plus 1 for every Put/Delete plus the source's count for every Append,
\* modulo 2^32, restarted from its argument by SetCount (so it is the number
\* of Put/Delete calls when nothing else was called); after SetContents it
\* is the loaded header's count, and every later call changes it the same
\* way.
C11_CountFollowsCalls ==
  /\ [](\A b \in Batches :
          /\ load[b].kind = "none" => Count(rep[b]) = CountAfter(0, hist[b])
          /\ Built(b) => Count(rep[b]) = Len(Calls(b)))
  /\ [][\A b \in Batches :
          CallStep(b) =>
            Count(rep'[b]) = CountAfter(Count(rep[b]), << Last(hist'[b]) >>)
       ]_vars

\* b1 was cleared, took one Put and then the two records of b2 by Append:
\* its count is 3.
C11_Witness ==
  /\ load["b1"].kind = "none"
  /\ Len(hist["b1"]) = 2
  /\ hist["b1"][1].op = "Put"
  /\ hist["b1"][2].op = "Append"
  /\ hist["b1"][2].expiry = 2
  /\ Count(rep["b1"]) = 3

\* --------------------------------------------------------------------- C12
\* Iterate or InsertInto has returned a corruption for a buffer that holds a
\* header.
FailedPass ==
  /\ op.name \in {"Iterate", "InsertInto"}
  /\ Len(rep[op.b]) >= kHeader
  /\ res.status \in Corruptions

\* The offset at which the last record handed to the handler ends.
GoodEnd == IF res.ends = << >> THEN kHeader ELSE Last(res.ends)

\* C12: when Iterate or InsertInto returns a corruption for a buffer of at
\* least 12 bytes, the handler has received exactly the records before the
\* point of failure, in buffer order, and nothing after it; none of the calls
\* is undone (InsertInto has added one entry for each); for the wrong-count
\* corruption these are all the records of the buffer.
C12_NoAtomicity ==
  FailedPass =>
    LET before == Iterate(SetCount(Take(rep[op.b], GoodEnd), Len(res.calls)))
    IN  /\ before.status = OK
        /\ before.calls = res.calls
        /\ res.status = WrongCount =>
              GoodEnd = Len(rep[op.b]) /\ res.found = Len(res.calls)
        /\ res.status # WrongCount =>
              GoodEnd < Len(rep[op.b]) /\ res.found = Len(res.calls) + 1
        /\ op.name = "InsertInto" =>
              /\ Len(res.mem) = Len(res.calls)
              /\ \A i \in 1..Len(res.mem) :
                   /\ res.mem[i].key = res.calls[i].key
                   /\ res.mem[i].value = res.calls[i].value

\* InsertInto met a record that does not decode after one that does: the
\* first record's entry is in the index and the status is a corruption.
C12_Witness ==
  /\ FailedPass
  /\ op.name = "InsertInto"
  /\ res.status \in {BadPut, BadDelete, BadExpiry, UnknownTag}
  /\ Len(res.mem) = 1
  /\ res.mem[1].type # kTypeDeletion

\* --------------------------------------------------------------------- C13
\* Iterate, or InsertInto by way of it, has run on a buffer shorter than a
\* header.
ShortPass ==
  /\ op.name \in {"Iterate", "InsertInto"}
  /\ Len(rep[op.b]) < kHeader

\* C13: on a buffer shorter than 12 bytes Iterate returns the too-small
\* corruption at once: no handler call is made, no record is read (found is
\* still 0) and the count field is not looked at.
C13_TooSmallFirst ==
  ShortPass =>
    /\ res.status = TooSmall
    /\ res.calls = << >>
    /\ res.ends = << >>
    /\ res.found = 0
    /\ res.mem = << >>

\* Iterate has run on a buffer of 8 bytes, loaded in a build without the
\* assert.
C13_Witness ==
  /\ ShortPass
  /\ op.name = "Iterate"
  /\ Len(rep[op.b]) = 8
  /\ res.status = TooSmall

\* --------------------------------------------------------------------- C14
\* A reference parser of the format of lines 5-14, written from the grammar:
\* a record is a tag byte followed by the fields that the tag calls for.
\*
\* A varint at the head of `bytes`, of at most `most` bytes: it ends at the
\* first byte below 128.  n is its length (0 if there is none) and value the
\* number it holds, 7 bits a byte, lowest first, as far as 32 bits reach.
RefVarint(bytes, most) ==
  LET stops == {i \in 1..Len(bytes) : i <= most /\ bytes[i] < 128}
      n == IF stops = {} THEN 0
           ELSE CHOOSE i \in stops : \A j \in stops : i <= j
      low == [i \in 1..4 |-> IF i <= n THEN bytes[i] % 128 ELSE 0]
      low28 == low[1] + 128 * low[2] + 16384 * low[3] + 2097152 * low[4]
  IN  [n |-> n,
       value |-> IF n >= 5 /\ bytes[5] % 16 # 0 THEN VarintHuge ELSE low28]

\* The number of bytes that a well-formed field of the given kind takes at
\* the head of `bytes`, 0 if there is no such field: a varstring is a
\* varint32 length and that many bytes, an expiry is a varint64.
RefField(bytes, kind) ==
  IF kind = "expiry" THEN RefVarint(bytes, 10).n
  ELSE LET len == RefVarint(bytes, 5)
       IN  IF len.n = 0 \/ len.value > Len(bytes) - len.n THEN 0
           ELSE len.n + len.value

\* The fields after each tag, and the corruption that a record of that tag
\* is reported with.
RefFields(tag) ==
  CASE tag = kTypeValue -> << "varstring", "varstring" >>
    [] tag = kTypeDeletion -> << "varstring" >>
    [] OTHER -> << "varstring", "expiry", "varstring" >>

RefReason(tag) ==
  CASE tag = kTypeValue -> BadPut
    [] tag = kTypeDeletion -> BadDelete
    [] tag \in {kTypeValueWriteTime, kTypeValueExplicitExpiry} -> BadExpiry
    [] OTHER -> UnknownTag

\* The bytes that the fields `kinds` take at the head of `bytes`, -1 if one
\* of them is ill-formed.
RECURSIVE RefFieldsLen(_, _)
RefFieldsLen(bytes, kinds) ==
  IF kinds = << >> THEN 0
  ELSE LET l == RefField(bytes, Head(kinds))
           r == RefFieldsLen(Drop(bytes, l), Tail(kinds))
       IN  IF l = 0 \/ r < 0 THEN -1 ELSE l + r

\* The length of the record at the head of `bytes`, 0 if it is not one.
RefRecord(bytes) ==
  LET tag == Head(bytes)
      l == IF tag \in ValueTypes
           THEN RefFieldsLen(Tail(bytes), RefFields(tag))
           ELSE -1
  IN  IF l < 0 THEN 0 ELSE 1 + l

\* The status of the record region `bytes` with n records already split off
\* and `count` in the header.
RECURSIVE RefRegion(_, _, _)
RefRegion(bytes, n, count) ==
  IF bytes = << >> THEN (IF n = count THEN OK ELSE WrongCount)
  ELSE LET l == RefRecord(bytes)
       IN  IF l = 0 THEN RefReason(Head(bytes))
           ELSE RefRegion(Drop(bytes, l), n + 1, count)

RefStatus(rep_) == RefRegion(Drop(rep_, kHeader), 0, Count(rep_))

\* C14: for a buffer of at least 12 bytes the status of Iterate depends on
\* the buffer alone and is the reference parser's: OK exactly when the bytes
\* after the header split completely into well-formed records and their
\* number is the header count, else the corruption of the first record that
\* fails, by its tag, and wrong count only when every record decoded.
C14_StatusIsReference ==
  op.name \in {"Iterate", "InsertInto"} /\ Len(rep[op.b]) >= kHeader =>
    /\ res.status = RefStatus(rep[op.b])
    /\ res.status = Iterate(rep[op.b]).status
    /\ res.status = WrongCount => GoodEnd = Len(rep[op.b])

\* Raw contents whose second record has an expiry tag and no fields have
\* been iterated: one handler call, then the bad-Expiry corruption.
C14_Witness ==
  /\ op.name = "Iterate"
  /\ load[op.b].kind = "raw"
  /\ Len(rep[op.b]) > kHeader
  /\ res.status = BadExpiry
  /\ Len(res.calls) = 1

\* --------------------------------------------------------------------- C15
\* The (type, expiry) pair that the entry of a decoded put carries under the
\* policy: the pair as the expiry module rewrote it, when there is one.
PolicyPair(policy, c) ==
  IF policy = "NULL" THEN << c.type, c.expiry >>
  ELSE LET use == ExpiryCallback(policy, c.key, c.value, c.type, c.expiry)
       IN  << use.type, use.expiry >>

\* C15: the index entry of a decoded put carries the key, the value and the
\* (type, expiry) pair as the configured policy rewrote it (the decoded pair
\* when there is none); the entry of a decoded delete is (sequence, Deletion,
\* key, empty value, 0) under every policy; and each entry's sequence is the
\* one before it advanced by 1 (in uint64), whatever the policy did.
C15_InserterAdapter ==
  op.name = "InsertInto" /\ Len(rep[op.b]) >= kHeader =>
    /\ Len(res.mem) = Len(res.calls)
    /\ \A i \in 1..Len(res.mem) :
         LET c == res.calls[i]
             e == res.mem[i]
         IN  /\ e.seq = IF i = 1 THEN Sequence(rep[op.b])
                                 ELSE U64Inc(res.mem[i - 1].seq)
             /\ c.op = "Delete" =>
                   e = MemEntry(e.seq, kTypeDeletion, c.key, << >>, 0)
             /\ c.op = "Put" =>
                   /\ e.key = c.key
                   /\ e.value = c.value
                   /\ << e.type, e.expiry >> = PolicyPair(op.x, c)

\* InsertInto with a policy that stamps plain values has replayed a put that
\* the policy rewrote and then a delete.
C15_Witness ==
  /\ op.name = "InsertInto"
  /\ op.x = "stamp"
  /\ Len(res.mem) >= 2
  /\ res.calls[1].op = "Put"
  /\ res.calls[1].type = kTypeValue
  /\ res.mem[1].type = kTypeValueWriteTime
  /\ res.mem[1].expiry = PolicyTime
  /\ res.calls[2].op = "Delete"
  /\ res.mem[2].seq = U64Inc(res.mem[1].seq)

\* --------------------------------------------------------------------- C16
\* A call of Put or Delete on b has returned in this step.
WriteStep(b) == CallStep(b) /\ IsCall(Last(hist'[b]))

\* C16: Put and Delete are append-only: each call adds 1 to the count field
\* and exactly one record after the previous end of the buffer, and leaves
\* alone the header sequence number and every byte of the records already
\* there.
C16_AppendOnly ==
  [][\A b \in Batches :
       WriteStep(b) =>
         LET old == rep[b]
             new == rep'[b]
             added == Drop(new, Len(old))
         IN  /\ Count(new) = Add32(Count(old), 1)
             /\ Sequence(new) = Sequence(old)
             /\ Len(new) > Len(old)
             /\ Drop(Take(new, Len(old)), kHeader) = Drop(old, kHeader)
             /\ RefRecord(added) = Len(added)
     ]_vars

\* --------------------------------------------------------------------- C17
\* The buffer after the Put/Delete calls `cs`, made in order on rep_.
RECURSIVE Replay(_, _)
Replay(rep_, cs) ==
  IF cs = << >> THEN rep_
  ELSE LET c == Head(cs)
       IN  Replay(IF c.op = "Delete" THEN DeleteRep(rep_, c.key)
                  ELSE PutRep(rep_, c.key, c.value,
                              IF c.null THEN KeyMetaData
                              ELSE Meta(c.type, c.expiry),
                              c.now),
                  Tail(cs))

\* b1 was built by Put/Delete, took b2 (built by Put/Delete) by Append, and
\* has been inserted.
MergedInserted ==
  /\ op.name = "InsertInto"
  /\ op.b = "b1"
  /\ load["b1"].kind = "none"
  /\ hist["b1"] # << >>
  /\ Last(hist["b1"]).op = "Append"
  /\ Len(Calls("b1")) = Len(hist["b1"]) - 1
  /\ Built("b2")

\* C17: after Append(dst, src) of two batches built by Put/Delete, the count
\* and the record region of dst are byte for byte those of a batch that took
\* dst's calls and then src's; and InsertInto of the merged batch at base s
\* gives src's j-th record the sequence s + count(dst before) + j, whatever
\* the sequence in src's header.
C17_MergeIsDirectWrite ==
  MergedInserted =>
    LET dst == Calls("b1")
        src == Calls("b2")
        n == Len(dst)
    IN  /\ Drop(rep["b1"], 8) = Drop(Replay(ClearRep, dst \o src), 8)
        /\ \A j \in 0..(Len(src) - 1) :
             /\ Len(res.mem) >= n + j + 1
             /\ res.mem[n + j + 1].seq = U64Plus(Sequence(rep["b1"]), n + j)
             /\ res.mem[n + j + 1].key = src[j + 1].key

\* --------------------------------------------------------------------- C18
\* C18: Iterate returns on every buffer, well-formed or corrupt: each pass of
\* its loop that does not return a corruption ends at an offset beyond the
\* one before it (it consumes at least one byte), no offset passes the end
\* of the buffer, and the handler calls are at most as many as the bytes
\* after the header.
C18_IterateTerminates ==
  op.name \in {"Iterate", "InsertInto"} =>
    /\ res.status \in {OK} \cup Corruptions
    /\ Len(res.ends) = Len(res.calls)
    /\ \A i \in 1..Len(res.ends) :
         /\ res.ends[i] > (IF i = 1 THEN kHeader ELSE res.ends[i - 1])
         /\ res.ends[i] <= Len(rep[op.b])
    /\ Len(rep[op.b]) >= kHeader =>
         /\ Len(res.calls) <= Len(rep[op.b]) - kHeader
         /\ res.found <= Len(res.calls) + 1
         /\ res.status # OK \/ GoodEnd = Len(rep[op.b])

\* Iterate has run on raw contents whose last byte is no tag: one record was
\* handed out, ending one byte before the end, and the pass on the last byte
\* returned the corruption.
C18_Witness ==
  /\ op.name = "Iterate"
  /\ load[op.b].kind = "raw"
  /\ res.status = UnknownTag
  /\ Len(res.calls) = 1
  /\ res.ends[1] = Len(rep[op.b]) - 1

\* --------------------------------------------------------------------- C19
\* C19: Iterate and InsertInto leave every byte of every batch as it was,
\* whether they return OK or a corruption; so a pass that follows another on
\* the same batch returns the same status and makes the same handler calls,
\* and an InsertInto that follows another gives the same sequence numbers to
\* the same records.
C19_ReadOnlyRepeatable ==
  [][op'.name \in {"Iterate", "InsertInto"} =>
       /\ rep' = rep
       /\ op.name \in {"Iterate", "InsertInto"} /\ op.b = op'.b =>
            /\ res'.status = res.status
            /\ res'.calls = res.calls
            /\ op.name = "InsertInto" /\ op'.name = "InsertInto" =>
                 /\ Len(res'.mem) = Len(res.mem)
                 /\ \A i \in 1..Len(res.mem) :
                      /\ res'.mem[i].seq = res.mem[i].seq
                      /\ res'.mem[i].key = res.mem[i].key
     ]_vars

\* InsertInto has returned a corruption after adding an entry that the
\* policy rewrote, on a batch that still holds its records.
C19_Witness ==
  /\ op.name = "InsertInto"
  /\ op.x = "stamp"
  /\ res.status \in Corruptions
  /\ Len(res.mem) >= 1
  /\ res.mem[1].expiry = PolicyTime
  /\ Len(rep[op.b]) > kHeader

====
